---- MODULE Spec2Model ----
(***************************************************************************)
(* A model of lab1/gujarati_tokenizer.py: the GujaratiTokenizer engine     *)
(* (sentence_tokenize, word_tokenize, classify_token, tokenize_paragraph)  *)
(* and the corpus functions process_dataset and compute_corpus_statistics. *)
(*                                                                         *)
(* A text is a sequence of Unicode code points.  An offset p into a text s *)
(* counts the code points before it (0..Len(s)); the code point at offset  *)
(* p is s[p+1].  Every regular expression of the source is modelled by an  *)
(* operator giving the offset where the match that Python's backtracking   *)
(* matcher prefers ends, or NoMatch.                                       *)
(***************************************************************************)
EXTENDS Integers, Sequences, FiniteSets, TLC

VARIABLES pc, text, sentences, tokens, category, document,
          dataset, max_examples, consumed, i, processed_data, statistics

vars == <<pc, text, sentences, tokens, category, document,
          dataset, max_examples, consumed, i, processed_data, statistics>>

\* ------------------------------------------------------------------ bounds
\* Longest text drawn from Alphabet.
MaxLen == 3
\* Longest dataset (number of records) drawn from Records.
MaxRecords == 3
\* Largest max_examples argument.
MaxExamples == 3

\* ------------------------------------------------------- character classes
NoMatch == 0 - 1
NoChar == 0 - 1

Max(S) == CHOOSE x \in S : \A y \in S : y <= x

\* The code point at offset p of s, NoChar outside the text.
At(s, p) == IF p >= 0 /\ p < Len(s) THEN s[p + 1] ELSE NoChar

\* [A-Za-z]
IsAsciiLetter(c) == c \in 65..90 \/ c \in 97..122

\* \d of a str pattern: Unicode decimal digits (ASCII and the Devanagari,
\* Bengali, Gurmukhi and Gujarati digits among the code points modelled).
IsDigit(c) ==
    \/ c \in 48..57
    \/ c \in 2406..2415
    \/ c \in 2534..2543
    \/ c \in 2662..2671
    \/ c \in 2790..2799

\* \s of a str pattern (str.isspace, which str.strip uses as well).
IsSpace(c) ==
    \/ c \in 9..13
    \/ c \in 28..32
    \/ c \in {133, 160, 5760, 8232, 8233, 8239, 8287, 12288}
    \/ c \in 8192..8202

\* [^\s]
IsNonSpace(c) == c >= 0 /\ ~IsSpace(c)

\* \w of a str pattern, for Latin-1 and the Gujarati block: alphanumerics and
\* "_".  Gujarati vowel signs (matras), virama and anusvara are marks, not \w.
IsWord(c) ==
    \/ c \in 48..57 \/ c \in 65..90 \/ c = 95 \/ c \in 97..122
    \/ c \in {170, 178, 179, 181, 185, 186, 188, 189, 190}
    \/ c \in 192..214 \/ c \in 216..246 \/ c \in 248..255
    \/ c \in 2693..2701 \/ c \in 2703..2705 \/ c \in 2707..2728
    \/ c \in 2730..2736 \/ c \in 2738..2739 \/ c \in 2741..2745
    \/ c \in {2749, 2768, 2784, 2785, 2809}
    \/ c \in 2790..2799

\* [\u0A80-\u0AFF]
gujarati_char_pattern(c) == c \in 2688..2815

\* [A-Za-z0-9._%+-]
IsEmailLocalChar(c) ==
    IsAsciiLetter(c) \/ c \in 48..57 \/ c \in {46, 95, 37, 43, 45}

\* [A-Za-z0-9.-]
IsEmailDomainChar(c) == IsAsciiLetter(c) \/ c \in 48..57 \/ c \in {46, 45}

\* [A-Z|a-z]
IsEmailTldChar(c) == IsAsciiLetter(c) \/ c = 124

\* the punctuation class: every ASCII punctuation character, the dandas
\* U+0964 U+0965, the en dash and the em dash
IsPunctuation(c) ==
    \/ c \in 33..47 \/ c \in 58..64 \/ c \in 91..96 \/ c \in 123..126
    \/ c \in {2404, 2405, 8211, 8212}

\* [\u0964\u0965.!?]+, one character of it
IsSentenceTerminatorNoDot(c) == c \in {2404, 2405, 33, 63}
IsSentenceTerminator(c) == c \in {2404, 2405, 46, 33, 63}

\* \b at offset p
WordBoundary(s, p) == IsWord(At(s, p - 1)) # IsWord(At(s, p))

\* c belongs to the character class named cls
InClass(cls, c) ==
    CASE cls = "ascii_letter"        -> IsAsciiLetter(c)
      [] cls = "digit"               -> IsDigit(c)
      [] cls = "space"               -> IsSpace(c)
      [] cls = "non_space"           -> IsNonSpace(c)
      [] cls = "gujarati"            -> gujarati_char_pattern(c)
      [] cls = "email_local"         -> IsEmailLocalChar(c)
      [] cls = "email_domain"        -> IsEmailDomainChar(c)
      [] cls = "email_tld"           -> IsEmailTldChar(c)
      [] cls = "sentence_terminator" -> IsSentenceTerminator(c)

\* The end of the longest run of the class cls from offset p (a greedy
\* repetition of the class).
RunEnd(s, p, cls) ==
    IF p >= Len(s) THEN p
    ELSE CHOOSE q \in p..Len(s) :
            /\ \A k \in (p + 1)..q : InClass(cls, s[k])
            /\ ~InClass(cls, At(s, q))

\* The literal lit stands at offset p.
HasLiteral(s, p, lit) ==
    /\ p + Len(lit) <= Len(s)
    /\ \A k \in 1..Len(lit) : s[p + k] = lit[k]

\* ------------------------------------------------------------ the patterns
\* a|b: the match of the first alternative, and of the second when the first
\* has none
OrElse(a, b) == IF a # NoMatch THEN a ELSE b

\* [A-Z|a-z]{2,}\b from offset t: the longest run that ends at a boundary.
EmailTldEnd(s, t) ==
    LET ends == {e \in (t + 2)..RunEnd(s, t, "email_tld") : WordBoundary(s, e)}
    IN  IF ends = {} THEN NoMatch ELSE Max(ends)

\* \b[A-Za-z0-9._%+-]+@[A-Za-z0-9.-]+\.[A-Z|a-z]{2,}\b
\* The local part is the whole run (a shorter one is not followed by "@");
\* the domain backtracks from the longest to the last "." that a tld follows.
EmailEnd(s, p) ==
    LET l  == RunEnd(s, p, "email_local")
        ds == {d \in (l + 2)..RunEnd(s, l + 1, "email_domain") :
                  At(s, d) = 46 /\ EmailTldEnd(s, d + 1) # NoMatch}
    IN  IF WordBoundary(s, p) /\ l > p /\ At(s, l) = 64 /\ ds # {}
        THEN EmailTldEnd(s, Max(ds) + 1)
        ELSE NoMatch

\* https?://[^\s]+
UrlSchemeEnd(s, p) ==
    LET http == <<104, 116, 116, 112>>
        sep  == <<58, 47, 47>>
        q == IF /\ HasLiteral(s, p, http) /\ At(s, p + 4) = 115
                /\ HasLiteral(s, p + 5, sep) /\ IsNonSpace(At(s, p + 8))
             THEN p + 8
             ELSE IF /\ HasLiteral(s, p, http) /\ HasLiteral(s, p + 4, sep)
                     /\ IsNonSpace(At(s, p + 7))
                  THEN p + 7
                  ELSE NoMatch
    IN  IF q = NoMatch THEN NoMatch ELSE RunEnd(s, q, "non_space")

\* www\.[^\s]+
UrlWwwEnd(s, p) ==
    IF HasLiteral(s, p, <<119, 119, 119, 46>>) /\ IsNonSpace(At(s, p + 4))
    THEN RunEnd(s, p + 4, "non_space")
    ELSE NoMatch

\* \b[a-zA-Z0-9.-]+\.[a-zA-Z]{2,}[^\s]*
UrlHostEnd(s, p) ==
    LET h  == RunEnd(s, p, "email_domain")
        ds == {d \in (p + 1)..(h - 1) :
                  At(s, d) = 46 /\ RunEnd(s, d + 1, "ascii_letter") >= d + 3}
    IN  IF WordBoundary(s, p) /\ ds # {}
        THEN RunEnd(s, RunEnd(s, Max(ds) + 1, "ascii_letter"), "non_space")
        ELSE NoMatch

\* the url pattern: its three alternatives in order
UrlEnd(s, p) ==
    OrElse(UrlSchemeEnd(s, p), OrElse(UrlWwwEnd(s, p), UrlHostEnd(s, p)))

\* \b\d+\.\d+\b
DecimalEnd(s, p) ==
    LET a    == RunEnd(s, p, "digit")
        ends == {e \in (a + 2)..RunEnd(s, a + 1, "digit") : WordBoundary(s, e)}
    IN  IF WordBoundary(s, p) /\ a > p /\ At(s, a) = 46 /\ ends # {}
        THEN Max(ends)
        ELSE NoMatch

\* \d+ without the closing \b
IntegerEndNoBoundary(s, p) ==
    IF WordBoundary(s, p) /\ RunEnd(s, p, "digit") > p
    THEN RunEnd(s, p, "digit")
    ELSE NoMatch

\* \b\d+\b
IntegerEnd(s, p) ==
    LET ends == {e \in (p + 1)..RunEnd(s, p, "digit") : WordBoundary(s, e)}
    IN  IF WordBoundary(s, p) /\ ends # {} THEN Max(ends) ELSE NoMatch

\* n digits from offset p
Digits(s, p, n) == \A k \in 0..(n - 1) : IsDigit(At(s, p + k))

\* [/-]
IsDateSeparator(c) == c \in {47, 45}

\* \b\d{A}[/-]\d{B}[/-]\d{C}\b with the counts drawn from the sets A, B, C,
\* each repetition greedy: the preferred match has the largest first count,
\* then the largest second, then the largest third.
DateShapeEnd(s, p, A, B, C) ==
    LET cands == {t \in A \X B \X C :
                    /\ Digits(s, p, t[1])
                    /\ IsDateSeparator(At(s, p + t[1]))
                    /\ Digits(s, p + t[1] + 1, t[2])
                    /\ IsDateSeparator(At(s, p + t[1] + 1 + t[2]))
                    /\ Digits(s, p + t[1] + t[2] + 2, t[3])
                    /\ WordBoundary(s, p + t[1] + t[2] + t[3] + 2)}
        Pref(t, u) == \/ t[1] > u[1]
                      \/ t[1] = u[1] /\ t[2] > u[2]
                      \/ t[1] = u[1] /\ t[2] = u[2] /\ t[3] >= u[3]
        best == CHOOSE t \in cands : \A u \in cands : Pref(t, u)
    IN  IF WordBoundary(s, p) /\ cands # {}
        THEN p + best[1] + best[2] + best[3] + 2
        ELSE NoMatch

\* \b\d{1,2}[/-]\d{1,2}[/-]\d{2,4}\b|\b\d{4}[/-]\d{1,2}[/-]\d{1,2}\b
DateEnd(s, p) ==
    OrElse(DateShapeEnd(s, p, 1..2, 1..2, 2..4),
           DateShapeEnd(s, p, {4}, 1..2, 1..2))

\* one character of the punctuation class
PunctuationEnd(s, p) == IF IsPunctuation(At(s, p)) THEN p + 1 ELSE NoMatch

\* [\u0A80-\u0AFF]+
GujaratiWordEnd(s, p) ==
    IF gujarati_char_pattern(At(s, p))
    THEN RunEnd(s, p, "gujarati")
    ELSE NoMatch

\* [A-Za-z]+
EnglishWordEnd(s, p) ==
    IF IsAsciiLetter(At(s, p)) THEN RunEnd(s, p, "ascii_letter") ELSE NoMatch

\* \s+
WhitespaceEnd(s, p) ==
    IF IsSpace(At(s, p)) THEN RunEnd(s, p, "space") ELSE NoMatch

\* token_pattern, compiled: the alternation of the rules of self.patterns in
\* the order of its keys (email, url, decimal_number, integer, date,
\* punctuation, gujarati_word, english_word, whitespace), matched at offset p:
\* the first alternative that matches
compiled_pattern(s, p) ==
    OrElse(EmailEnd(s, p),
    OrElse(UrlEnd(s, p),
    OrElse(DecimalEnd(s, p),
    OrElse(IntegerEnd(s, p),
    OrElse(DateEnd(s, p),
    OrElse(PunctuationEnd(s, p),
    OrElse(GujaratiWordEnd(s, p),
    OrElse(EnglishWordEnd(s, p),
           WhitespaceEnd(s, p)))))))))

\* ------------------------------------------------------------- the inputs
\* the paragraph of the commented-out test of the source, without its last sentence
ExampleParagraph ==
    <<2694, 2716, 2759, 32, 2745, 2753, 2690, 32, 2726, 2753, 2709, 2750, 2728, 2759,
      32, 2711, 2735, 2763, 46, 32, 2734, 2759, 2690, 32, 2710, 2750, 2723, 2750,
      2728, 2752, 32, 2741, 2744, 2765, 2724, 2753, 2707, 32, 2710, 2736, 2752, 2726,
      2752, 2404, 32, 2734, 2750, 2736, 2753, 2690, 32, 2695, 2734, 2759, 2695, 2738,
      32, 116, 101, 115, 116, 64, 101, 120, 97, 109, 112, 108, 101, 46,
      99, 111, 109, 32, 2715, 2759, 46>>

\* its third sentence, without the final full stop
EmailSentence ==
    <<2734, 2750, 2736, 2753, 2690, 32, 2695, 2734, 2759, 2695, 2738, 32, 116, 101,
      115, 116, 64, 101, 120, 97, 109, 112, 108, 101, 46, 99, 111, 109,
      32, 2715, 2759>>

\* "test@example.com"
EmailToken ==
    <<116, 101, 115, 116, 64, 101, 120, 97, 109, 112, 108, 101, 46, 99,
      111, 109>>

\* "25/07/2025"
DateToken ==
    <<50, 53, 47, 48, 55, 47, 50, 48, 50, 53>>

\* "2025-07-25"
IsoDateToken ==
    <<50, 48, 50, 53, 45, 48, 55, 45, 50, 53>>

\* "3.14"
DecimalToken ==
    <<51, 46, 49, 52>>

\* "123abc"
DigitsLettersToken ==
    <<49, 50, 51, 97, 98, 99>>

\* "abc123"
LettersDigitsToken ==
    <<97, 98, 99, 49, 50, 51>>

\* "https://a.b"
SchemeUrlToken ==
    <<104, 116, 116, 112, 115, 58, 47, 47, 97, 46, 98>>

\* "http://a"
PlainSchemeUrlToken ==
    <<104, 116, 116, 112, 58, 47, 47, 97>>

\* "www.x"
WwwUrlToken ==
    <<119, 119, 119, 46, 120>>

\* "a.aa/1"
HostUrlToken ==
    <<97, 46, 97, 97, 47, 49>>

\* "a. a. a a"
ThreeSentences ==
    <<97, 46, 32, 97, 46, 32, 97, 32, 97>>

\* "a a a. a a a a a"
ThreeFiveWords ==
    <<97, 32, 97, 32, 97, 46, 32, 97, 32, 97, 32, 97, 32, 97,
      32, 97>>

\* "a a a a"
FourWords ==
    <<97, 32, 97, 32, 97, 32, 97>>

\* The code points the bounded texts are drawn from: "a", "1", ".", "@", "/",
\* the space, the Gujarati letter KA, the Gujarati vowel sign AA, e-acute
\* (outside every rule of the tokenizer) and the danda.
Alphabet == {97, 49, 46, 64, 47, 32, 2709, 2750, 233, 2404}

BoundedTexts == UNION {[1..n -> Alphabet] : n \in 0..MaxLen}

Examples ==
    {ExampleParagraph, EmailSentence, EmailToken, DateToken, IsoDateToken,
     DecimalToken, DigitsLettersToken, LettersDigitsToken, SchemeUrlToken,
     PlainSchemeUrlToken, WwwUrlToken, HostUrlToken, ThreeSentences}

Texts == BoundedTexts \cup Examples

\* The texts of the records of a dataset: empty, blank, ".", e-acute, "a",
\* "a. a. a a".
DataTexts == {<<>>, <<32>>, <<46>>, <<233>>, <<97>>, ThreeSentences}

\* A record of the source: a dict with a text field, or one without.
Records == {[text |-> t] : t \in DataTexts} \cup {[id |-> 0]}

\* two documents: "a a a. a a a a a" and "a a a a"
ExampleCorpus == <<[text |-> ThreeFiveWords], [text |-> FourWords]>>

Datasets == UNION {[1..n -> Records] : n \in 0..MaxRecords} \cup {ExampleCorpus}

\* ------------------------------------------------------ the tokenizer engine
Min(S) == CHOOSE x \in S : \A y \in S : x <= y

\* str.strip()
Strip(s) ==
    LET idx == {k \in 1..Len(s) : ~IsSpace(s[k])}
    IN  IF idx = {} THEN <<>> ELSE SubSeq(s, Min(idx), Max(idx))

\* sentence_pattern.split(s) from offset p, the current piece starting at
\* offset start: a match is a run of terminators and the whitespace after it.
RECURSIVE SentenceSplit(_, _, _)
SentenceSplit(s, start, p) ==
    IF p >= Len(s) THEN <<SubSeq(s, start + 1, Len(s))>>
    ELSE IF IsSentenceTerminator(At(s, p))
         THEN LET e == RunEnd(s, RunEnd(s, p, "sentence_terminator"), "space")
              IN  <<SubSeq(s, start + 1, p)>> \o SentenceSplit(s, e, e)
         ELSE SentenceSplit(s, start, p + 1)

sentence_tokenize(t) ==
    LET pieces   == SentenceSplit(Strip(t), 0, 0)
        stripped == [k \in 1..Len(pieces) |-> Strip(pieces[k])]
    IN  SelectSeq(stripped, LAMBDA x : x # <<>>)

\* compiled_pattern.findall(s) from offset p: the leftmost match, then on
\* from its end e; an offset where no alternative matches is passed over.
RECURSIVE FindAll(_, _)
RECURSIVE FindAllFrom(_, _, _)
FindAllFrom(s, p, e) ==
    IF e = NoMatch THEN FindAll(s, p + 1)
    ELSE <<SubSeq(s, p + 1, e)>> \o FindAll(s, e)

FindAll(s, p) ==
    IF p >= Len(s) THEN <<>> ELSE FindAllFrom(s, p, compiled_pattern(s, p))

\* re.match(r'^\s+$', token)
IsWhitespaceToken(token) ==
    token # <<>> /\ \A k \in 1..Len(token) : IsSpace(token[k])

word_tokenize(t) == SelectSeq(FindAll(t, 0), LAMBDA x : ~IsWhitespaceToken(x))

\* classify_token with the integer rule tried before the decimal_number rule
classify_token_integer_first(token) ==
    IF EmailEnd(token, 0) # NoMatch THEN "email"
    ELSE IF UrlEnd(token, 0) # NoMatch THEN "url"
    ELSE IF IntegerEnd(token, 0) # NoMatch THEN "integer"
    ELSE IF DecimalEnd(token, 0) # NoMatch THEN "decimal_number"
    ELSE IF DateEnd(token, 0) # NoMatch THEN "date"
    ELSE IF PunctuationEnd(token, 0) # NoMatch THEN "punctuation"
    ELSE IF GujaratiWordEnd(token, 0) # NoMatch THEN "gujarati_word"
    ELSE IF EnglishWordEnd(token, 0) # NoMatch THEN "english_word"
    ELSE "other"

\* re.match(rule, token) is a match at offset 0
classify_token(token) ==
    IF EmailEnd(token, 0) # NoMatch THEN "email"
    ELSE IF UrlEnd(token, 0) # NoMatch THEN "url"
    ELSE IF DecimalEnd(token, 0) # NoMatch THEN "decimal_number"
    ELSE IF DateEnd(token, 0) # NoMatch THEN "date"
    ELSE IF IntegerEnd(token, 0) # NoMatch THEN "integer"
    ELSE IF PunctuationEnd(token, 0) # NoMatch THEN "punctuation"
    ELSE IF GujaratiWordEnd(token, 0) # NoMatch THEN "gujarati_word"
    ELSE IF EnglishWordEnd(token, 0) # NoMatch THEN "english_word"
    ELSE "other"

RECURSIVE SumSeq(_)
SumSeq(q) == IF q = <<>> THEN 0 ELSE Head(q) + SumSeq(Tail(q))

\* one entry of result['sentences']
SentenceEntry(sentence, words) ==
    [text             |-> sentence,
     words            |-> words,
     classified_words |-> [k \in 1..Len(words) |->
                              <<words[k], classify_token(words[k])>>],
     word_count       |-> Len(words)]

\* the loop over the sentences: result['sentences']
SentenceEntries(sents) ==
    [k \in 1..Len(sents) |-> SentenceEntry(sents[k], word_tokenize(sents[k]))]

\* the result dict; total_words is the running sum of the word counts
ParagraphResult(paragraph, entries) ==
    [original_text    |-> paragraph,
     sentences        |-> entries,
     total_words      |-> SumSeq([k \in 1..Len(entries) |-> Len(entries[k].words)]),
     total_characters |-> Len(paragraph)]

tokenize_paragraph(paragraph) ==
    ParagraphResult(paragraph, SentenceEntries(sentence_tokenize(paragraph)))

\* ------------------------------------------------------- the corpus functions
\* example.get('text', '')
GetText(example) == IF "text" \in DOMAIN example THEN example.text ELSE <<>>

\* not text.strip()
IsBlank(t) == Strip(t) = <<>>

\* if i > max_examples: break
ShouldBreakOffByOne(index, limit) == index > limit

\* if i >= max_examples: break
ShouldBreak(index, limit) == index >= limit

\* the result of a division the code does not guard
ZeroDivisionError == 0 - 1

\* round(n / d, digits) in units of 1/scale, scale = 10^digits: the nearest
\* multiple, an exactly representable tie (d a power of two) going to the even
\* one as Python's round does.
Round(n, d, scale) ==
    LET q == (n * scale) \div d
        r == (n * scale) % d
    IN  IF 2 * r < d THEN q
        ELSE IF 2 * r > d THEN q + 1
        ELSE IF q % 2 = 0 THEN q ELSE q + 1

\* round(n / d, digits), raising on d = 0
RoundedRatioUnguarded(n, d, scale) ==
    IF d = 0 THEN ZeroDivisionError ELSE Round(n, d, scale)

\* round(n / d if d > 0 else 0, digits)
RoundedRatio(n, d, scale) == IF d > 0 THEN Round(n, d, scale) ELSE 0

RECURSIVE Flatten(_)
Flatten(q) == IF q = <<>> THEN <<>> ELSE Head(q) \o Flatten(Tail(q))

\* The statistics dict.  The three rounded values are kept as integers: the
\* averages in hundredths (round(x, 2)), the type-token ratio in
\* ten-thousandths (round(x, 4)).
compute_corpus_statistics(data) ==
    LET all_sentences    == Flatten([k \in 1..Len(data) |-> data[k].sentences])
        total_sentences  == Len(all_sentences)
        total_words      == SumSeq([k \in 1..Len(all_sentences) |->
                                       Len(all_sentences[k].words)])
        total_characters == SumSeq([k \in 1..Len(data) |-> data[k].total_characters])
        all_words        == Flatten([k \in 1..Len(all_sentences) |->
                                       all_sentences[k].words])
        total_word_chars == SumSeq([k \in 1..Len(all_words) |-> Len(all_words[k])])
        unique_words     == {all_words[k] : k \in 1..Len(all_words)}
    IN  [total_sentences      |-> total_sentences,
         total_words          |-> total_words,
         total_characters     |-> total_characters,
         avg_sentence_length  |-> RoundedRatio(total_words, total_sentences, 100),
         avg_word_length      |-> RoundedRatio(total_word_chars, total_words, 100),
         ttr                  |-> RoundedRatio(Cardinality(unique_words), total_words, 10000),
         total_unique_words   |-> Cardinality(unique_words)]

\* -------------------------------------------------------------- the machine
NoDocument ==
    [original_text |-> <<>>, sentences |-> <<>>, total_words |-> 0,
     total_characters |-> 0]

NoStatistics == compute_corpus_statistics(<<>>)

\* A tokenizer has been constructed and a text chosen; no call made yet.
Init ==
    /\ pc = "ready"
    /\ text \in Texts
    /\ sentences = <<>>
    /\ tokens = <<>>
    /\ category = "none"
    /\ document = NoDocument
    /\ dataset = <<>>
    /\ max_examples = 0
    /\ consumed = 0
    /\ i = 0
    /\ processed_data = <<>>
    /\ statistics = NoStatistics

SentenceTokenize ==
    /\ pc = "ready"
    /\ sentences' = sentence_tokenize(text)
    /\ pc' = "sentence_tokenize"
    /\ UNCHANGED <<text, tokens, category, document, dataset, max_examples,
                   consumed, i, processed_data, statistics>>

WordTokenize ==
    /\ pc = "ready"
    /\ tokens' = word_tokenize(text)
    /\ pc' = "word_tokenize"
    /\ UNCHANGED <<text, sentences, category, document, dataset, max_examples,
                   consumed, i, processed_data, statistics>>

ClassifyToken ==
    /\ pc = "ready"
    /\ category' = classify_token(text)
    /\ pc' = "classify_token"
    /\ UNCHANGED <<text, sentences, tokens, document, dataset, max_examples,
                   consumed, i, processed_data, statistics>>

TokenizeParagraph ==
    /\ pc = "ready"
    /\ document' = tokenize_paragraph(text)
    /\ pc' = "tokenize_paragraph"
    /\ UNCHANGED <<text, sentences, tokens, category, dataset, max_examples,
                   consumed, i, processed_data, statistics>>

Next == SentenceTokenize \/ WordTokenize \/ ClassifyToken \/ TokenizeParagraph

Spec == Init /\ [][Next]_vars

\* process_dataset(dataset, max_examples) has been called; the loop has not
\* yet asked the source for a record.  consumed counts the records the loop has
\* taken from the iterator of the source.
InitData ==
    /\ pc = "for"
    /\ dataset \in Datasets
    /\ max_examples \in 0..MaxExamples
    /\ consumed = 0
    /\ i = 0
    /\ processed_data = <<>>
    /\ statistics = NoStatistics
    /\ text = <<>>
    /\ sentences = <<>>
    /\ tokens = <<>>
    /\ category = "none"
    /\ document = NoDocument

\* for i, example in enumerate(dataset): the next record is taken
ForNext ==
    /\ pc = "for"
    /\ consumed < Len(dataset)
    /\ consumed' = consumed + 1
    /\ i' = consumed
    /\ pc' = "body"
    /\ UNCHANGED <<text, sentences, tokens, category, document, dataset,
                   max_examples, processed_data, statistics>>

\* the source is exhausted: the loop ends and process_dataset returns
ForExhausted ==
    /\ pc = "for"
    /\ consumed = Len(dataset)
    /\ pc' = "returned"
    /\ UNCHANGED <<text, sentences, tokens, category, document, dataset,
                   max_examples, consumed, i, processed_data, statistics>>

\* if i >= max_examples: break
Break ==
    /\ pc = "body"
    /\ ShouldBreak(i, max_examples)
    /\ pc' = "returned"
    /\ UNCHANGED <<text, sentences, tokens, category, document, dataset,
                   max_examples, consumed, i, processed_data, statistics>>

\* if not text.strip(): continue
SkipBlank ==
    /\ pc = "body"
    /\ ~ShouldBreak(i, max_examples)
    /\ IsBlank(GetText(dataset[i + 1]))
    /\ pc' = "for"
    /\ UNCHANGED <<text, sentences, tokens, category, document, dataset,
                   max_examples, consumed, i, processed_data, statistics>>

\* processed_data.append(tokenizer.tokenize_paragraph(text))
ProcessExample ==
    /\ pc = "body"
    /\ ~ShouldBreak(i, max_examples)
    /\ ~IsBlank(GetText(dataset[i + 1]))
    /\ processed_data' =
           Append(processed_data, tokenize_paragraph(GetText(dataset[i + 1])))
    /\ pc' = "for"
    /\ UNCHANGED <<text, sentences, tokens, category, document, dataset,
                   max_examples, consumed, i, statistics>>

\* compute_corpus_statistics on what process_dataset returned
ComputeCorpusStatistics ==
    /\ pc = "returned"
    /\ statistics' = compute_corpus_statistics(processed_data)
    /\ pc' = "statistics"
    /\ UNCHANGED <<text, sentences, tokens, category, document, dataset,
                   max_examples, consumed, i, processed_data>>

NextData ==
    \/ ForNext \/ ForExhausted \/ Break \/ SkipBlank \/ ProcessExample
    \/ ComputeCorpusStatistics

SpecData == InitData /\ [][NextData]_vars

\* ------------------------------------------------------------- properties
Categories ==
    {"email", "url", "decimal_number", "date", "integer", "punctuation",
     "gujarati_word", "english_word", "other"}

\* the precedence order of classification
Precedence ==
    <<"email", "url", "decimal_number", "date", "integer", "punctuation",
      "gujarati_word", "english_word">>

\* the rule of a category matches at the start of t
MatchesPrefix(name, t) ==
    CASE name = "email"          -> EmailEnd(t, 0) # NoMatch
      [] name = "url"            -> UrlEnd(t, 0) # NoMatch
      [] name = "decimal_number" -> DecimalEnd(t, 0) # NoMatch
      [] name = "date"           -> DateEnd(t, 0) # NoMatch
      [] name = "integer"        -> IntegerEnd(t, 0) # NoMatch
      [] name = "punctuation"    -> PunctuationEnd(t, 0) # NoMatch
      [] name = "gujarati_word"  -> GujaratiWordEnd(t, 0) # NoMatch
      [] name = "english_word"   -> EnglishWordEnd(t, 0) # NoMatch

FirstSatisfied(t) ==
    LET hits == {k \in 1..Len(Precedence) : MatchesPrefix(Precedence[k], t)}
    IN  IF hits = {} THEN "other" ELSE Precedence[Min(hits)]

\* C1: classify_token returns, for every token (the empty one too), exactly
\* one category: the first in the order email, url, decimal_number, date,
\* integer, punctuation, gujarati_word, english_word whose rule matches at the
\* start of the token, and "other" when none does; "3.14", which the integer
\* rule matches as well, is decimal_number.
C1_ClassifyFirstMatch ==
    pc = "classify_token" =>
        /\ category \in Categories
        /\ category = FirstSatisfied(text)
        /\ text = DecimalToken =>
               MatchesPrefix("integer", text) /\ category = "decimal_number"

C1_Witness ==
    /\ pc = "classify_token"
    /\ text = DecimalToken
    /\ category = "decimal_number"

\* sub occurs in s
Contains(s, sub) ==
    \E p \in 0..(Len(s) - Len(sub)) : SubSeq(s, p + 1, p + Len(sub)) = sub

\* C2: sentence_tokenize of the example paragraph returns exactly 3
\* sentences, one of them holding the whole address test@example.com.
C2_ExampleThreeSentences ==
    (pc = "sentence_tokenize" /\ text = ExampleParagraph) =>
        /\ Len(sentences) = 3
        /\ \E k \in 1..Len(sentences) : Contains(sentences[k], EmailToken)

\* 1-2 digits, "/" or "-", 1-2 digits, "/" or "-", 2-4 digits
IsDateShaped(t) ==
    \E a \in 1..2, b \in 1..2, c \in 2..4 :
        /\ Len(t) = a + b + c + 2
        /\ \A k \in 1..Len(t) :
              IF k = a + 1 \/ k = a + b + 2
              THEN t[k] \in {47, 45}
              ELSE t[k] \in 48..57

\* C3: a date-shaped text standing alone is one token of word_tokenize, the
\* whole text, and that token is classified date.
C3_DateSingleToken ==
    (pc = "word_tokenize" /\ IsDateShaped(text)) =>
        /\ tokens = <<text>>
        /\ classify_token(tokens[1]) = "date"

\* every character of t is an ASCII letter or digit, a punctuation character
\* of the punctuation rule, a character of the Gujarati block or whitespace
InDefinedRanges(t) ==
    \A k \in 1..Len(t) :
        \/ IsAsciiLetter(t[k]) \/ t[k] \in 48..57 \/ IsPunctuation(t[k])
        \/ t[k] \in 2688..2815 \/ IsSpace(t[k])

WithoutWhitespace(t) == SelectSeq(t, LAMBDA c : ~IsSpace(c))

\* C4: for a text within the defined ranges that is not blank, word_tokenize
\* returns at least one token and the tokens, concatenated, are the text
\* without its whitespace.
C4_NoCharacterDropped ==
    (pc = "word_tokenize" /\ InDefinedRanges(text) /\ WithoutWhitespace(text) # <<>>) =>
        /\ tokens # <<>>
        /\ Flatten(tokens) = WithoutWhitespace(text)

\* C5: compute_corpus_statistics returns for every collection of results
\* (no division fails), the average sentence length is 0 when there is no
\* sentence, and the average word length and the type-token ratio are 0 when
\* there is no word.
C5_ZeroGuards ==
    pc = "statistics" =>
        /\ ZeroDivisionError \notin
               {statistics.avg_sentence_length, statistics.avg_word_length,
                statistics.ttr}
        /\ statistics.total_sentences = 0 => statistics.avg_sentence_length = 0
        /\ statistics.total_words = 0 =>
               statistics.avg_word_length = 0 /\ statistics.ttr = 0

\* a corpus with a sentence that has no token and a document that has no
\* sentence
C5_Witness ==
    /\ pc = "statistics"
    /\ statistics.total_sentences > 0
    /\ statistics.total_words = 0
    /\ \E k \in 1..Len(processed_data) : processed_data[k].sentences = <<>>

\* the counts of the statistics are the sums over the documents
CountsAreSums ==
    /\ statistics.total_sentences =
           SumSeq([k \in 1..Len(processed_data) |-> Len(processed_data[k].sentences)])
    /\ statistics.total_words =
           SumSeq([k \in 1..Len(processed_data) |->
                      SumSeq([j \in 1..Len(processed_data[k].sentences) |->
                                 processed_data[k].sentences[j].word_count])])
    /\ statistics.total_words =
           SumSeq([k \in 1..Len(processed_data) |-> processed_data[k].total_words])
    /\ statistics.total_characters =
           SumSeq([k \in 1..Len(processed_data) |-> processed_data[k].total_characters])

\* the example corpus gives 3 sentences, 12 words and the average 4.0
ExampleCorpusStatistics ==
    (dataset = ExampleCorpus /\ max_examples >= 2) =>
        /\ statistics.total_sentences = 3
        /\ statistics.total_words = 12
        /\ statistics.avg_sentence_length = 400

\* C6: the counts of the statistics are the sums over the documents, the
\* average sentence length is exactly total_words / total_sentences, and the
\* example corpus gives 3, 12 and 4.0.
C6_ExactAverage ==
    pc = "statistics" =>
        /\ CountsAreSums
        /\ ExampleCorpusStatistics
        /\ statistics.total_sentences > 0 =>
               statistics.avg_sentence_length * statistics.total_sentences
                   = 100 * statistics.total_words

\* the record has a text that is neither empty nor whitespace only
HasText(r) == "text" \in DOMAIN r /\ \E k \in 1..Len(r.text) : ~IsSpace(r.text[k])

\* the first max_examples records of the source
FirstRecords ==
    SubSeq(dataset, 1, IF max_examples < Len(dataset) THEN max_examples
                       ELSE Len(dataset))

\* C7: process_dataset returns, in the order of the source, one
\* tokenize_paragraph result for each of the first max_examples records whose
\* text is present and not blank; the others among them are skipped and count
\* toward max_examples, so there are at most max_examples results.
C7_ProcessedInOrder ==
    pc = "returned" =>
        /\ processed_data =
               LET kept == SelectSeq(FirstRecords, HasText)
               IN  [k \in 1..Len(kept) |-> tokenize_paragraph(kept[k].text)]
        /\ Len(processed_data) <= max_examples

\* a source longer than max_examples, with a record skipped and a record kept
\* among the first max_examples
C7_Witness ==
    /\ pc = "returned"
    /\ Len(dataset) > max_examples
    /\ Len(processed_data) >= 1
    /\ Len(processed_data) < max_examples

\* C8: when the source holds more than max_examples records, process_dataset
\* has taken at most max_examples records from it when it returns.
C8_PullsAtMostMaxExamples ==
    (pc = "returned" /\ Len(dataset) > max_examples) => consumed <= max_examples

\* one or more ASCII digits followed by one or more ASCII letters
IsDigitsThenLetters(t) ==
    \E n \in 1..(Len(t) - 1) :
        \A k \in 1..Len(t) : IF k <= n THEN t[k] \in 48..57 ELSE IsAsciiLetter(t[k])

\* one or more ASCII letters followed by one or more ASCII digits
IsLettersThenDigits(t) ==
    \E n \in 1..(Len(t) - 1) :
        \A k \in 1..Len(t) : IF k <= n THEN IsAsciiLetter(t[k]) ELSE t[k] \in 48..57

\* C9 as stated: a token of digits followed by letters, such as "123abc", is
\* classified integer.
C9_DigitsThenLettersInteger ==
    (pc = "classify_token" /\ IsDigitsThenLetters(text)) => category = "integer"

\* C9, amended: the rules are matched at the start of the token and need not
\* consume it (letters followed by digits, such as "abc123", are
\* english_word), but the integer rule ends at a word boundary, so digits
\* followed by letters, such as "123abc", are classified other.
C9_DigitsThenLettersOther ==
    pc = "classify_token" =>
        /\ IsLettersThenDigits(text) => category = "english_word"
        /\ IsDigitsThenLetters(text) => category = "other"

C9_Witness ==
    /\ pc = "classify_token"
    /\ text = DigitsLettersToken
    /\ category = "other"

HasTerminator(t) == \E k \in 1..Len(t) : t[k] \in {46, 33, 63, 2404, 2405}

\* C10: in a result of tokenize_paragraph no sentence text and no token holds
\* a sentence terminator, and no token is classified email or decimal_number.
C10_NoTerminatorInResult ==
    pc = "tokenize_paragraph" =>
        \A k \in 1..Len(document.sentences) :
            LET sentence == document.sentences[k]
            IN  /\ ~HasTerminator(sentence.text)
                /\ \A j \in 1..Len(sentence.words) : ~HasTerminator(sentence.words[j])
                /\ \A j \in 1..Len(sentence.classified_words) :
                       sentence.classified_words[j][2] \notin {"email", "decimal_number"}

\* a paragraph that holds an e-mail address, split into several sentences
C10_Witness ==
    /\ pc = "tokenize_paragraph"
    /\ Contains(text, EmailToken)
    /\ Len(document.sentences) > 1
    /\ document.total_words > 0

====
